---- MODULE Spec2Model ----
(***************************************************************************)
(* Model of auth_manager.go: the store-backed token lifecycle              *)
(* (GenerateToken / DecodeToken / DestroyToken) of authManager over a      *)
(* Redis key-value store with per-key expiry.                              *)
(*                                                                         *)
(* Strings are modelled by their structure.  A token string is a record:   *)
(*   kind = "rand"  an opaque random string (output of                     *)
(*                  generateRandomString), numbered by id;                 *)
(*   kind = "jwt"   a three-segment JWT: header alg, the key its signature *)
(*                  was computed with, the claims uuid/typ and whether its *)
(*                  exp claim is absent or already elapsed;                *)
(*   kind = "empty" the empty string.                                      *)
(* The store answers each command either with its result or with a         *)
(* transport error; a SET or DEL that was answered with a transport error  *)
(* may or may not have been carried out.                                   *)
(***************************************************************************)
EXTENDS Integers, Sequences, FiniteSets, TLC

\* ---------------------------------------------------------------- bounds
MaxRand == 1        \* random strings the generator can still hand out
MaxExpr == 1        \* largest expiry duration a caller passes (in ticks)
MaxIssued == 2      \* random strings handed out in IssuedSpec

\* ------------------------------------------------------- program constants
TokenByteLength == 32

ResetPassword == 0
VerifyEmail   == 1
AccessToken   == 2
RefreshToken  == 3
TokenType == {ResetPassword, VerifyEmail, AccessToken, RefreshToken}

Nil                        == "nil"
ErrInvalidToken            == "invalid token"
ErrInvalidTokenType        == "invalid token type"
ErrUnexpectedSigningMethod == "unexpected token signing method"
ErrNotFound                == "not found"

TokenEncodingAlgorithm == "HS512"

\* opts.PrivateKey, fixed at construction
PrivateKey == "secret"

\* ------------------------------------------------------------ environment
\* redis.Nil, the reply of GET for a key that is not in the store
RedisNil == "redis: nil"
\* transport-level failure of a store command (network failure, timeout,
\* cancelled context): whatever cmd.Err() carries
StoreErrors == {"context canceled"}
\* failure of the random source
ErrRand == "rand: read failed"

\* *TokenClaims: nil, or a pointer to a TokenClaims value
NilClaims  == [isNil |-> TRUE,  uuid |-> "", typ |-> ResetPassword]
TokenClaims(uuid, typ) == [isNil |-> FALSE, uuid |-> uuid, typ |-> typ]
ZeroClaims == TokenClaims("", ResetPassword)
NewTokenClaims(uuid, tokenType) == TokenClaims(uuid, tokenType)

\* ---------------------------------------------------------- token strings
EmptyString == [kind |-> "empty", id |-> 0, alg |-> "", signedWith |-> "",
                uuid |-> "", typ |-> ResetPassword, exp |-> "absent"]
RandomString(n) == [kind |-> "rand", id |-> n, alg |-> "", signedWith |-> "",
                    uuid |-> "", typ |-> ResetPassword, exp |-> "absent"]
Jwt(alg, signedWith, uuid, typ, exp) ==
    [kind |-> "jwt", id |-> 0, alg |-> alg, signedWith |-> signedWith,
     uuid |-> uuid, typ |-> typ, exp |-> exp]

RandTokens == {RandomString(n) : n \in 1..(MaxRand + MaxIssued)}
\* an opaque string made up by a caller, which the generator never produces
Stranger == RandomString(0)

\* JWT strings a caller may present (and that an earlier writer may have left
\* in the store): well signed, signed with another HMAC algorithm, unsigned
\* ("none"), and signed with a different key (or with an altered signature).
JwtGood    == Jwt("HS512", PrivateKey, "u1", VerifyEmail, "absent")
JwtHS256   == Jwt("HS256", PrivateKey, "u1", ResetPassword, "absent")
JwtNone    == Jwt("none", "", "u1", VerifyEmail, "absent")
JwtBadSig  == Jwt("HS512", "other", "u2", VerifyEmail, "absent")
JwtTokens  == {JwtGood, JwtHS256, JwtNone, JwtBadSig}

Tokens == RandTokens \cup JwtTokens \cup {Stranger}

VARIABLES
    store,      \* Redis: key -> [value, ttl]; ttl = 0 is "no expiry"
    nextRand,   \* number of random strings drawn so far
    destroyed,  \* keys of the store for which DestroyToken returned nil, or
                \* which its DEL removed although it was answered with an error
    last,       \* the last call: operation, arguments, results, store commands
    inflight,   \* concurrent callers: the GenerateToken call each has between
                \* line 76 (string drawn) and line 81 (SET), if any
    returned,   \* keys the GenerateToken calls of CollisionSpec have returned
    repeated    \* strings the random source has delivered more than once

vars == <<store, nextRand, destroyed, last, inflight, returned, repeated>>
callVars == <<inflight, returned, repeated>>

\* ------------------------------------------------------------- the store
\* a SET that drops the expiration
StoreSet_NoExpiry(s, key, value, expr) ==
    [k \in (DOMAIN s) \cup {key} |->
        IF k = key THEN [value |-> value, ttl |-> 0] ELSE s[k]]

\* Set(ctx, key, value, expr): a positive expiration is sent as EX/PX, zero
\* means the key has no expiration time.
StoreSet(s, key, value, expr) ==
    [k \in (DOMAIN s) \cup {key} |->
        IF k = key THEN [value |-> value, ttl |-> expr] ELSE s[k]]

\* a delete that empties the store
StoreDel_All(s, key) == [k \in {} |-> s[k]]

StoreDel(s, key) == [k \in (DOMAIN s) \ {key} |-> s[k]]

\* one unit of time passes in the store: every running TTL decreases and a
\* key whose TTL reaches zero is gone
StoreTick(s) ==
    LET gone == {k \in DOMAIN s : s[k].ttl = 1} IN
    [k \in (DOMAIN s) \ gone |->
        IF s[k].ttl = 0 THEN s[k] ELSE [s[k] EXCEPT !.ttl = @ - 1]]

Cmd(name, key, reply) == [cmd |-> name, key |-> key, reply |-> reply]

\* -------------------------------------------------------- jwt (v4) parsing
HMACMethods == {"HS256", "HS384", "HS512"}

\* the Keyfunc passed to ParseWithClaims (lines 103-109)
Keyfunc(token) ==
    IF token.alg \notin HMACMethods
    THEN [key |-> "", err |-> ErrUnexpectedSigningMethod]
    ELSE [key |-> PrivateKey, err |-> Nil]

\* jwt.ParseWithClaims(token, tokenClaims, keyfunc): segments, key lookup,
\* claims validation (exp), signature verification.  err = Nil iff valid.
ParseWithClaims(token) ==
    IF token.kind # "jwt"
    THEN [valid |-> FALSE, claims |-> ZeroClaims, err |-> "token is malformed"]
    ELSE LET kf == Keyfunc(token)
             cl == TokenClaims(token.uuid, token.typ) IN
         IF kf.err # Nil
         THEN [valid |-> FALSE, claims |-> cl, err |-> "token is unverifiable"]
         ELSE IF token.exp = "elapsed"
         THEN [valid |-> FALSE, claims |-> cl, err |-> "token is expired"]
         ELSE IF token.signedWith # kf.key
         THEN [valid |-> FALSE, claims |-> cl, err |-> "signature is invalid"]
         ELSE [valid |-> TRUE, claims |-> cl, err |-> Nil]

\* ------------------------------------------------------------ operations
\* what the random source delivers to one call: a string, or nothing when
\* the read fails; nothing keeps it from delivering a string a second time
NoBytes == EmptyString

\* generateRandomString(TokenByteLength): the string the random source
\* delivered, or the error of the random source
generateRandomString(n, bytes) ==
    IF bytes = NoBytes THEN [token |-> EmptyString, err |-> ErrRand]
    ELSE [token |-> bytes, err |-> Nil]

\* The reply of the store to a SET or DEL: nil, or a transport error, and
\* then the store has either carried the command out or not.
Ok == [err |-> Nil, applied |-> TRUE]
Outcomes == {Ok} \cup {[err |-> e, applied |-> a] : e \in StoreErrors, a \in BOOLEAN}

\* GenerateToken that refuses the types which have a path of their own and
\* a type that differs from the one in the claims
GenerateToken_ChecksType(tokenType, tokenClaims, expr, bytes, set) ==
    IF tokenType \in {AccessToken, RefreshToken} \/ tokenType # tokenClaims.typ
    THEN [token |-> EmptyString, err |-> ErrInvalidTokenType, cmds |-> <<>>,
          store |-> store]
    ELSE LET r == generateRandomString(TokenByteLength, bytes)
             written == IF set.applied
                        THEN StoreSet(store, r.token, tokenClaims, expr)
                        ELSE store IN
         IF r.err # Nil
         THEN [token |-> EmptyString, err |-> r.err, cmds |-> <<>>,
               store |-> store]
         ELSE IF set.err # Nil
         THEN [token |-> EmptyString, err |-> set.err,
               cmds |-> <<Cmd("SET", r.token, set.err)>>, store |-> written]
         ELSE [token |-> r.token, err |-> Nil,
               cmds |-> <<Cmd("SET", r.token, Nil)>>, store |-> written]

\* GenerateToken that does not look at the error of the random source and
\* writes under the string it got
GenerateToken_WritesOnRandFail(tokenType, tokenClaims, expr, bytes, set) ==
    LET r == generateRandomString(TokenByteLength, bytes)
        written == IF set.applied
                   THEN StoreSet(store, r.token, tokenClaims, expr)
                   ELSE store IN
    IF set.err # Nil
    THEN [token |-> EmptyString, err |-> set.err,
          cmds |-> <<Cmd("SET", r.token, set.err)>>, store |-> written]
    ELSE [token |-> IF r.err # Nil THEN EmptyString ELSE r.token,
          err |-> r.err,
          cmds |-> <<Cmd("SET", r.token, Nil)>>, store |-> written]

\* GenerateToken that stores every token under one and the same key
GenerateToken_FixedKey(tokenType, tokenClaims, expr, bytes, set) ==
    LET r == generateRandomString(TokenByteLength, bytes)
        key == RandomString(1)
        written == IF set.applied
                   THEN StoreSet(store, key, tokenClaims, expr)
                   ELSE store IN
    IF r.err # Nil
    THEN [token |-> EmptyString, err |-> r.err, cmds |-> <<>>, store |-> store]
    ELSE IF set.err # Nil
    THEN [token |-> EmptyString, err |-> set.err,
          cmds |-> <<Cmd("SET", key, set.err)>>, store |-> written]
    ELSE [token |-> key, err |-> Nil,
          cmds |-> <<Cmd("SET", key, Nil)>>, store |-> written]

\* GenerateToken that ignores the error of SET and hands out the key
GenerateToken_SwallowSetErr(tokenType, tokenClaims, expr, bytes, set) ==
    LET r == generateRandomString(TokenByteLength, bytes)
        written == IF set.applied
                   THEN StoreSet(store, r.token, tokenClaims, expr)
                   ELSE store IN
    IF r.err # Nil
    THEN [token |-> EmptyString, err |-> r.err, cmds |-> <<>>, store |-> store]
    ELSE [token |-> r.token, err |-> Nil,
          cmds |-> <<Cmd("SET", r.token, set.err)>>, store |-> written]

\* GenerateToken (lines 75-87); bytes is what the random source delivered,
\* set the outcome of the SET of line 81: the error it replied with (returned
\* at lines 82-84) and whether the store has carried it out
GenerateToken(tokenType, tokenClaims, expr, bytes, set) ==
    LET r == generateRandomString(TokenByteLength, bytes)
        written == IF set.applied
                   THEN StoreSet(store, r.token, tokenClaims, expr)
                   ELSE store IN
    IF r.err # Nil
    THEN [token |-> EmptyString, err |-> r.err, cmds |-> <<>>, store |-> store]
    ELSE IF set.err # Nil
    THEN [token |-> EmptyString, err |-> set.err,
          cmds |-> <<Cmd("SET", r.token, set.err)>>, store |-> written]
    ELSE [token |-> r.token, err |-> Nil,
          cmds |-> <<Cmd("SET", r.token, Nil)>>, store |-> written]

\* a lookup that does not report a missing key
Get_IgnoresMissing(token, fault) ==
    IF fault # Nil THEN fault ELSE Nil

\* redisClient.Get(ctx, token).Result() (line 96)
Get(token, fault) ==
    IF fault # Nil THEN fault
    ELSE IF token \notin DOMAIN store THEN RedisNil
    ELSE Nil

\* DecodeToken without the comparison of line 116
DecodeToken_NoTypeCheck(token, tokenType, fault) ==
    LET err  == Get(token, fault)
        cmds == <<Cmd("GET", token, err)>> IN
    IF err # Nil
    THEN [claims |-> NilClaims, err |-> err, cmds |-> cmds, store |-> store]
    ELSE LET jwtToken == ParseWithClaims(token) IN
         IF jwtToken.err # Nil
         THEN [claims |-> NilClaims, err |-> ErrInvalidToken, cmds |-> cmds, store |-> store]
         ELSE [claims |-> jwtToken.claims, err |-> Nil, cmds |-> cmds, store |-> store]

\* DecodeToken that consumes the token it has accepted
DecodeToken_Consumes(token, tokenType, fault) ==
    LET err  == Get(token, fault)
        cmds == <<Cmd("GET", token, err)>> IN
    IF err # Nil
    THEN [claims |-> NilClaims, err |-> err, cmds |-> cmds, store |-> store]
    ELSE LET jwtToken == ParseWithClaims(token) IN
         IF jwtToken.err # Nil
         THEN [claims |-> NilClaims, err |-> ErrInvalidToken, cmds |-> cmds,
               store |-> store]
         ELSE IF jwtToken.claims.typ # tokenType
         THEN [claims |-> NilClaims, err |-> ErrInvalidTokenType,
               cmds |-> cmds, store |-> store]
         ELSE [claims |-> jwtToken.claims, err |-> Nil,
               cmds |-> cmds \o <<Cmd("DEL", token, Nil)>>,
               store |-> StoreDel(store, token)]

\* DecodeToken that returns the parser's error and the half-filled claims
DecodeToken_LeakParseErr(token, tokenType, fault) ==
    LET err  == Get(token, fault)
        cmds == <<Cmd("GET", token, err)>> IN
    IF err # Nil
    THEN [claims |-> NilClaims, err |-> err, cmds |-> cmds, store |-> store]
    ELSE LET jwtToken == ParseWithClaims(token) IN
         IF jwtToken.err # Nil
         THEN [claims |-> jwtToken.claims, err |-> jwtToken.err, cmds |-> cmds, store |-> store]
         ELSE IF jwtToken.claims.typ # tokenType
         THEN [claims |-> NilClaims, err |-> ErrInvalidTokenType, cmds |-> cmds, store |-> store]
         ELSE [claims |-> jwtToken.claims, err |-> Nil, cmds |-> cmds, store |-> store]

\* DecodeToken (lines 95-124); fault is the reply of the store to GET
DecodeToken(token, tokenType, fault) ==
    LET err  == Get(token, fault)
        cmds == <<Cmd("GET", token, err)>> IN
    IF err # Nil
    THEN [claims |-> NilClaims, err |-> err, cmds |-> cmds, store |-> store]
    ELSE LET jwtToken == ParseWithClaims(token) IN
         IF jwtToken.err # Nil
         THEN [claims |-> NilClaims, err |-> ErrInvalidToken, cmds |-> cmds, store |-> store]
         ELSE IF jwtToken.valid
         THEN IF jwtToken.claims.typ # tokenType
              THEN [claims |-> NilClaims, err |-> ErrInvalidTokenType, cmds |-> cmds, store |-> store]
              ELSE [claims |-> jwtToken.claims, err |-> Nil, cmds |-> cmds, store |-> store]
         ELSE [claims |-> ZeroClaims, err |-> ErrInvalidToken, cmds |-> cmds, store |-> store]

\* DestroyToken that reports success without the key being deleted
DestroyToken_NoDel(key, del) ==
    [err |-> del.err, cmds |-> <<Cmd("DEL", key, del.err)>>, store |-> store]

\* DestroyToken that sends DEL a second time when the first one failed
DestroyToken_RetriesOnce(key, del) ==
    IF del.err # Nil
    THEN [err |-> Nil,
          cmds |-> <<Cmd("DEL", key, del.err), Cmd("DEL", key, Nil)>>,
          store |-> StoreDel(store, key)]
    ELSE [err |-> Nil, cmds |-> <<Cmd("DEL", key, Nil)>>,
          store |-> StoreDel(store, key)]

\* DestroyToken that treats a DEL which removed nothing as an error
DestroyToken_ErrOnMissing(key, del) ==
    IF del.err # Nil
    THEN [err |-> del.err, cmds |-> <<Cmd("DEL", key, del.err)>>,
          store |-> IF del.applied THEN StoreDel(store, key) ELSE store]
    ELSE [err |-> IF key \in DOMAIN store THEN Nil ELSE ErrNotFound,
          cmds |-> <<Cmd("DEL", key, Nil)>>,
          store |-> StoreDel(store, key)]

\* DestroyToken (lines 127-134); del is the outcome of the DEL of line 128:
\* the error it replied with, which is what the call returns, and whether
\* the store has carried it out
DestroyToken(key, del) ==
    [err |-> del.err, cmds |-> <<Cmd("DEL", key, del.err)>>,
     store |-> IF del.applied THEN StoreDel(store, key) ELSE store]

\* ------------------------------------------------- the access-token path
\* GenerateAccessToken(ctx, uuid, expr): claims of type AccessToken with an
\* expiry claim, signed with the configured algorithm and the private key.
\* The expiry of a token issued here lies beyond the time the model covers.
GenerateAccessToken(uuid, expr) ==
    [token |-> Jwt(TokenEncodingAlgorithm, PrivateKey, uuid, AccessToken, "later"),
     err |-> Nil, cmds |-> <<>>, store |-> store]

\* a DecodeAccessToken that also wants the token to be a key of the store
DecodeAccessToken_ChecksStore(token) ==
    IF token \notin DOMAIN store
    THEN [valid |-> FALSE, err |-> ErrInvalidToken,
          cmds |-> <<Cmd("GET", token, RedisNil)>>, store |-> store]
    ELSE [valid |-> ParseWithClaims(token).valid /\ token.typ = AccessToken,
          err |-> IF ParseWithClaims(token).valid /\ token.typ = AccessToken
                  THEN Nil ELSE ErrInvalidToken,
          cmds |-> <<Cmd("GET", token, Nil)>>, store |-> store]

\* DecodeAccessToken(ctx, token): verify, expecting type AccessToken
DecodeAccessToken(token) ==
    LET res(valid, err) ==
            [valid |-> valid, err |-> err, cmds |-> <<>>, store |-> store] IN
    IF token.kind # "jwt" THEN res(FALSE, ErrInvalidToken)
    ELSE IF token.alg # TokenEncodingAlgorithm
    THEN res(FALSE, ErrUnexpectedSigningMethod)
    ELSE IF token.signedWith # PrivateKey \/ token.exp = "elapsed"
    THEN res(FALSE, ErrInvalidToken)
    ELSE IF token.typ # AccessToken THEN res(FALSE, ErrInvalidTokenType)
    ELSE res(TRUE, Nil)

\* ------------------------------------------------------------ state machine
Faults == {Nil} \cup StoreErrors
Exprs  == 0..MaxExpr
\* claims a caller passes to GenerateToken
GenClaims == {NewTokenClaims("u1", VerifyEmail)}
\* strings a caller can present: any JWT, a made-up string, and the random
\* strings the generator has produced so far
Presented == JwtTokens \cup {Stranger} \cup {RandomString(n) : n \in 1..nextRand}

\* The record of a call: its arguments (expr is GenerateToken's), what it
\* returned, the store commands it issued with their replies, and whether
\* its key was in the store when the call began.
Call(op, token, typ, claims, expr, err, cmds, wasLive) ==
    [op |-> op, token |-> token, typ |-> typ, claims |-> claims,
     expr |-> expr, err |-> err, cmds |-> cmds, wasLive |-> wasLive]

NoCall ==
    Call("none", EmptyString, ResetPassword, NilClaims, 0, Nil, <<>>, FALSE)

\* callers that run GenerateToken at the same time, and what each has in
\* hand between drawing its string and sending its SET
Callers == {"a", "b"}
Idle == [busy |-> FALSE, bytes |-> NoBytes]

\* A Redis nobody has written to
EmptyStore == [k \in {} |-> [value |-> NilClaims, ttl |-> 0]]

\* A Redis that other clients of the same database have written JWT-keyed
\* records to; the well-signed HS512 one has a running TTL, the others none
SeededStore ==
    [k \in JwtTokens |->
        [value |-> TokenClaims(k.uuid, k.typ),
         ttl |-> IF k = JwtGood THEN 1 ELSE 0]]

\* the stores the redisClient handed to NewAuthManager may be connected to
InitialStores == {EmptyStore, SeededStore}

\* NewAuthManager(redisClient, opts) keeps the client and the options and
\* writes nothing: the store is the one the caller's client is connected
\* to, fresh or already written to.
Init ==
    /\ store \in InitialStores
    /\ nextRand = 0
    /\ destroyed = {}
    /\ last = NoCall
    /\ inflight = [c \in Callers |-> Idle]
    /\ returned = {}
    /\ repeated = {}

\* GenerateToken holds no lock and waits for the store at line 81: between
\* line 76 (the string is drawn) and line 81 (the SET) of one caller's call
\* the other caller's steps, other calls and the store's clock can come in.

\* what the random source delivers when it repeats no string: a string it
\* has not delivered before, or nothing; at most max strings
FreshBytes(max) ==
    IF nextRand < max THEN {NoBytes, RandomString(nextRand + 1)} ELSE {}

\* lines 76-79 of a call of caller c: the string is drawn; when the random
\* source fails the call returns its error. These lines read none of the
\* call's arguments, which are local to the call: they are drawn where they
\* first show, in the record of the call that returns here or in the SET.
GenerateTokenDrawOf(c, types, byteSet) ==
    /\ ~inflight[c].busy
    /\ \E bytes \in byteSet :
          LET r == generateRandomString(TokenByteLength, bytes) IN
          IF r.err # Nil
          THEN /\ \E tokenType \in types, tokenClaims \in GenClaims,
                     expr \in Exprs :
                     LET res == GenerateToken(tokenType, tokenClaims, expr,
                                              bytes, Ok) IN
                     last' = Call("GenerateToken", res.token, tokenType,
                                  tokenClaims, expr, res.err, res.cmds, FALSE)
               /\ UNCHANGED <<store, nextRand, destroyed, callVars>>
          ELSE /\ inflight' = [inflight EXCEPT ![c] =
                                 [busy |-> TRUE, bytes |-> bytes]]
               /\ nextRand' = IF bytes.id > nextRand
                               THEN nextRand + 1 ELSE nextRand
               /\ repeated' = IF bytes.id <= nextRand
                               THEN repeated \cup {bytes} ELSE repeated
               /\ UNCHANGED <<store, destroyed, last, returned>>

\* lines 81-86 of the call caller c has in hand: the SET is sent and
\* answered, the call returns
GenerateTokenSetOf(c, types) ==
    /\ inflight[c].busy
    /\ \E tokenType \in types, tokenClaims \in GenClaims,
          expr \in Exprs, set \in Outcomes :
          LET res == GenerateToken(tokenType, tokenClaims, expr,
                                   inflight[c].bytes, set) IN
          /\ store' = res.store
          /\ last' = Call("GenerateToken", res.token, tokenType, tokenClaims,
                          expr, res.err, res.cmds, FALSE)
          /\ inflight' = [inflight EXCEPT ![c] = Idle]
          /\ UNCHANGED <<nextRand, destroyed, repeated>>

GenerateTokenSet(c) ==
    /\ GenerateTokenSetOf(c, TokenType)
    /\ UNCHANGED returned

GenerateTokenDraw(c) == GenerateTokenDrawOf(c, TokenType, FreshBytes(MaxRand))

DecodeTokenOf(tokens) ==
    \E token \in tokens, tokenType \in TokenType, fault \in Faults :
        LET res == DecodeToken(token, tokenType, fault) IN
        /\ last' = Call("DecodeToken", token, tokenType, res.claims, 0,
                        res.err, res.cmds, token \in DOMAIN store)
        /\ store' = res.store
        /\ UNCHANGED <<nextRand, destroyed, callVars>>

DecodeTokenCall == DecodeTokenOf(Presented)

DestroyTokenOf(keys) ==
    \E key \in keys, del \in Outcomes :
        LET res == DestroyToken(key, del) IN
        /\ store' = res.store
        /\ destroyed' = IF /\ key \in DOMAIN store
                            /\ (res.err = Nil \/ key \notin DOMAIN res.store)
                         THEN destroyed \cup {key} ELSE destroyed
        /\ last' = Call("DestroyToken", key, ResetPassword, NilClaims, 0,
                        res.err, res.cmds, key \in DOMAIN store)
        /\ UNCHANGED <<nextRand, callVars>>

DestroyTokenCall == DestroyTokenOf(Presented)

\* time passes: the store drops the keys whose TTL has run out
Tick ==
    /\ \E k \in DOMAIN store : store[k].ttl > 0
    /\ store' = StoreTick(store)
    /\ UNCHANGED <<nextRand, destroyed, last, callVars>>

Next ==
    \/ \E c \in Callers : GenerateTokenDraw(c)
    \/ \E c \in Callers : GenerateTokenSet(c)
    \/ DecodeTokenCall
    \/ DestroyTokenCall
    \/ Tick

Spec == Init /\ [][Next]_vars

\* The same program with callers that present only what GenerateToken has
\* handed out (or tried to): up to MaxIssued random strings.
Issued == {RandomString(n) : n \in 1..nextRand}

IssuedDraw(c)  == GenerateTokenDrawOf(c, TokenType, FreshBytes(MaxIssued))
IssuedDecode   == DecodeTokenOf(Issued)
IssuedDestroy  == DestroyTokenOf(Issued)

IssuedNext ==
    \/ \E c \in Callers : IssuedDraw(c)
    \/ \E c \in Callers : GenerateTokenSet(c)
    \/ IssuedDecode
    \/ IssuedDestroy
    \/ Tick

IssuedSpec == Init /\ [][IssuedNext]_vars

\* ... and with the access-token operations
AccessSubjects == {"u1"}
AccessExprs    == 1..MaxExpr
\* signed strings a caller presents to DecodeAccessToken
AccessPresented ==
    {GenerateAccessToken(u, 1).token : u \in AccessSubjects}
        \cup {JwtGood, JwtBadSig, Stranger}

GenerateAccessTokenCall ==
    \E uuid \in AccessSubjects, expr \in AccessExprs :
        LET res == GenerateAccessToken(uuid, expr) IN
        /\ store' = res.store
        /\ last' = Call("GenerateAccessToken", res.token, AccessToken,
                        NewTokenClaims(uuid, AccessToken), expr, res.err,
                        res.cmds, FALSE)
        /\ UNCHANGED <<nextRand, destroyed, callVars>>

DecodeAccessTokenCall ==
    \E token \in AccessPresented :
        LET res == DecodeAccessToken(token) IN
        /\ store' = res.store
        /\ last' = Call("DecodeAccessToken", token, AccessToken, NilClaims,
                        0, res.err, res.cmds, token \in DOMAIN store)
        /\ UNCHANGED <<nextRand, destroyed, callVars>>

AccessNext ==
    \/ IssuedNext
    \/ GenerateAccessTokenCall
    \/ DecodeAccessTokenCall

AccessSpec == Init /\ [][AccessNext]_vars

\* The callers when the random source may deliver a string it has delivered
\* before. Two callers hold at most two strings at a time, so two different
\* strings are all that is told apart.
CollisionBytes ==
    {NoBytes} \cup {RandomString(n) : n \in 1..(IF nextRand < Cardinality(Callers)
                                                THEN nextRand + 1
                                                ELSE Cardinality(Callers))}

CollisionDraw(c) == GenerateTokenDrawOf(c, {VerifyEmail}, CollisionBytes)
\* here the keys the calls have returned are kept, to tell a repeated key
CollisionSet(c) ==
    /\ GenerateTokenSetOf(c, {VerifyEmail})
    /\ returned' = IF last'.err = Nil
                    THEN returned \cup {last'.token} ELSE returned

CollisionNext ==
    \/ \E c \in Callers : CollisionDraw(c)
    \/ \E c \in Callers : CollisionSet(c)
    \/ IssuedDestroy
    \/ Tick

\* the callers share a store that starts fresh
CollisionInit == Init /\ store = EmptyStore

CollisionSpec == CollisionInit /\ [][CollisionNext]_vars

\* time does not stop: while some key has a running TTL the store's clock
\* keeps ticking
FairIssuedSpec == IssuedSpec /\ WF_vars(Tick)

\* ------------------------------------------------------------------ claims
\* the store answered the (first) command of the last call
Replied == last.cmds # <<>> /\ last.cmds[1].reply \notin StoreErrors

\* the last call decoded a random key that GenerateToken stored and that is
\* still in the store
DecodedIssued ==
    /\ last.op = "DecodeToken"
    /\ last.token.kind = "rand"
    /\ last.wasLive
    /\ Replied
    /\ last.token \in DOMAIN store

\* C1: round trip. Decoding a key that GenerateToken returned, while the key
\* is in the store and with the type of its claims, returns no error and
\* claims with the subject and type given at generation.
C1_RoundTrip ==
    (DecodedIssued /\ last.typ = store[last.token].value.typ)
        => /\ last.err = Nil
           /\ ~last.claims.isNil
           /\ last.claims.uuid = store[last.token].value.uuid
           /\ last.claims.typ = store[last.token].value.typ

\* C2: decoding a key that GenerateToken returned and that is in the store,
\* with a type other than the one of its claims, returns ErrInvalidTokenType
\* and never ErrInvalidToken.
C2_WrongTypeIsInvalidTokenType ==
    (DecodedIssued /\ last.typ # store[last.token].value.typ)
        => last.err = ErrInvalidTokenType

\* C3: revocation is immediate. Once DestroyToken(key) has returned nil, every
\* later DecodeToken(key, anyType) fails and returns no claims, whatever the
\* calls in between and although the key's TTL has not run out: of a key
\* the call took out of the store, and of a key that is not in the store.
C3_RevokedNeverDecodes ==
    /\ (last.op = "DecodeToken" /\ last.token \in destroyed)
          => (last.err # Nil /\ last.claims.isNil)
    /\ (last.op = "DecodeToken" /\ ~last.wasLive)
          => (last.err # Nil /\ last.claims.isNil)

\* a well-signed key without expiry was destroyed and then decoded with the
\* type of its claims
C3_Witness ==
    /\ last.op = "DecodeToken"
    /\ last.token = JwtHS256
    /\ last.typ = ResetPassword
    /\ JwtHS256 \in destroyed
    /\ Replied
    /\ last.err # Nil

\* C4: DecodeToken of a key that is not in the store returns ErrInvalidToken:
\* the store's not-found reply is mapped, not handed to the caller.
C4_AbsentIsInvalidToken ==
    (last.op = "DecodeToken" /\ ~last.wasLive /\ Replied)
        => last.err = ErrInvalidToken

\* C5: validity requires store membership and type match. Whenever DecodeToken
\* returns claims and a nil error, the key was in the store at the lookup, the
\* token is a well-formed JWT signed with the private key and not past its
\* exp, and the claims returned are the token's, of the expected type.
C5_ValidRequiresMembershipAndType ==
    (last.op = "DecodeToken" /\ last.err = Nil)
        => /\ last.wasLive
           /\ last.token.kind = "jwt"
           /\ last.token.signedWith = PrivateKey
           /\ last.token.exp = "absent"
           /\ ~last.claims.isNil
           /\ last.claims.uuid = last.token.uuid
           /\ last.claims.typ = last.token.typ
           /\ last.claims.typ = last.typ

\* a decode that succeeded
C5_Witness ==
    /\ last.op = "DecodeToken"
    /\ last.token = JwtGood
    /\ last.typ = VerifyEmail
    /\ last.err = Nil
    /\ ~last.claims.isNil

\* a DestroyToken step (Tick leaves last alone, the other calls set last.op)
DestroyStep == last'.op = "DestroyToken" /\ last' # last

\* C6: DestroyToken is idempotent. On a key that is not in the store (already
\* destroyed, expired or never issued) it returns nil, the store answering,
\* and leaves the store as it is; and after a DestroyToken that returned nil
\* the key is not in the store, so a second call is the first case.
C6_DestroyIdempotent ==
    [][DestroyStep =>
        /\ (~last'.wasLive /\ last'.cmds[1].reply = Nil)
              => (last'.err = Nil /\ store' = store)
        /\ last'.err = Nil => last'.token \notin DOMAIN store']_vars

\* DestroyToken of a key that was in the store at construction (the store
\* holds another JWT-keyed record, so it was not empty) and no longer is
\* returned nil
C6_Witness ==
    /\ last.op = "DestroyToken"
    /\ last.token = JwtGood
    /\ ~last.wasLive
    /\ last.err = Nil
    /\ JwtHS256 \in DOMAIN store

\* C7: a token signed with an algorithm other than HS512 is never accepted,
\* and the caller receives ErrUnexpectedSigningMethod.
C7_OtherAlgIsUnexpectedSigningMethod ==
    (/\ last.op = "DecodeToken"
     /\ last.wasLive
     /\ Replied
     /\ last.token.kind = "jwt"
     /\ last.token.alg # TokenEncodingAlgorithm)
        => (last.err = ErrUnexpectedSigningMethod /\ last.claims.isNil)

\* C8: for a key in the store, a malformed token string or one whose
\* signature was not made with the private key makes DecodeToken return
\* ErrInvalidToken and no claims; the parser's own error is not returned.
C8_ParseFailureIsInvalidToken ==
    (/\ last.op = "DecodeToken"
     /\ last.wasLive
     /\ Replied
     /\ (last.token.kind # "jwt" \/ last.token.signedWith # PrivateKey))
        => (last.err = ErrInvalidToken /\ last.claims.isNil)

\* a stored key with a bad signature was decoded
C8_Witness ==
    /\ last.op = "DecodeToken"
    /\ last.token = JwtBadSig
    /\ last.wasLive
    /\ Replied
    /\ last.err = ErrInvalidToken

\* C9: a transport error of SET, GET or DEL is what GenerateToken, DecodeToken
\* or DestroyToken returns: never nil, never one of the module's own errors,
\* and GenerateToken then returns the empty string, DecodeToken no claims.
C9_StoreErrorsPropagate ==
    (last.cmds # <<>> /\ last.cmds[1].reply \in StoreErrors)
        => /\ last.err = last.cmds[1].reply
           /\ last.op = "GenerateToken" => last.token = EmptyString
           /\ last.op = "DecodeToken" => last.claims.isNil

\* SET failed under GenerateToken
C9_Witness ==
    /\ last.op = "GenerateToken"
    /\ last.cmds # <<>>
    /\ last.cmds[1].cmd = "SET"
    /\ last.cmds[1].reply \in StoreErrors
    /\ last.err \in StoreErrors

\* C10: Expired and Destroyed are terminal and look the same. No DecodeToken
\* or DestroyToken call brings a key back into the store, and DecodeToken of
\* a key that is gone returns, for every expected type, the one result
\* (nil, redis.Nil), whether the key expired or was destroyed.
C10_GoneIsTerminal ==
    [][last'.op \in {"DecodeToken", "DestroyToken"} =>
        /\ (DOMAIN store') \subseteq (DOMAIN store)
        /\ (last'.op = "DecodeToken" /\ ~last'.wasLive
               /\ last'.cmds[1].reply \notin StoreErrors)
              => (last'.err = RedisNil /\ last'.claims.isNil)]_vars

\* a key whose TTL ran out was decoded: it was in the store at construction
\* (the store holds another JWT-keyed record) and no DestroyToken removed it
C10_Witness ==
    /\ last.op = "DecodeToken"
    /\ last.token = JwtGood
    /\ last.typ = VerifyEmail
    /\ JwtGood \notin destroyed
    /\ JwtHS256 \in DOMAIN store
    /\ ~last.wasLive
    /\ last.err = RedisNil

\* C11 as stated: every key GenerateToken has stored has a running TTL,
\* whatever expiry duration the caller passed.
C11_IssuedHasRunningTTL ==
    \A k \in DOMAIN store : k.kind = "rand" => store[k].ttl > 0

\* C11, amended: a key that GenerateToken returned for a positive expiry
\* duration is eventually gone from the store (expired, unless destroyed
\* first), and DecodeToken then fails on it as not found, for every expected
\* type.
C11_PositiveTTLExpires ==
    \A k \in {RandomString(n) : n \in 1..MaxIssued} :
        (/\ last.op = "GenerateToken"
         /\ last.err = Nil
         /\ last.token = k
         /\ last.expr > 0)
            ~> (/\ k \notin DOMAIN store
                /\ \A t \in TokenType : DecodeToken(k, t, Nil).err = RedisNil)

\* GenerateToken returned a key which, without any other call since, is gone
\* from the store: its TTL ran out
C11_Witness ==
    /\ last.op = "GenerateToken"
    /\ last.err = Nil
    /\ last.expr > 0
    /\ last.token.kind = "rand"
    /\ last.token \notin DOMAIN store
    /\ last.token \notin destroyed

\* the step in which the GenerateToken call of caller c sends its SET and
\* returns a key
SetOkStep(c) == inflight[c].busy /\ ~inflight'[c].busy /\ last'.err = Nil

\* C13 as stated: no two GenerateToken calls collide, in any interleaving. The
\* key a successful call returns is none that a successful call has returned
\* before, and is not a key of the store when the call writes it.
C13_NoKeyCollision ==
    [][\A c \in Callers :
        SetOkStep(c) =>
            /\ last'.token \notin returned
            /\ last'.token \notin DOMAIN store]_vars

\* C13, amended: collisions are excluded only as far as the random source
\* delivers no string twice. In every interleaving a successful call returns
\* the string it drew and writes under it with a plain SET, leaving every
\* other record as it is; if that string was delivered only once, the key is
\* none returned before and none of the store; whatever was under the key,
\* the record is afterwards the one of this call.
C13_CollisionOnlyOnRepeatedString ==
    [][\A c \in Callers :
        SetOkStep(c) =>
            /\ last'.token = inflight[c].bytes
            /\ last'.token \notin repeated =>
                  /\ last'.token \notin returned
                  /\ last'.token \notin DOMAIN store
            /\ last'.token \in DOMAIN store'
            /\ store'[last'.token] =
                  [value |-> last'.claims, ttl |-> last'.expr]
            /\ \A k \in DOMAIN store \ {last'.token} :
                  k \in DOMAIN store' /\ store'[k] = store[k]]_vars

\* caller a has drawn the first string and not yet sent its SET, while
\* caller b, which drew the second string later, has already returned its
\* key; no string was delivered twice
C13_Witness ==
    /\ inflight["a"].busy
    /\ inflight["a"].bytes = RandomString(1)
    /\ ~inflight["b"].busy
    /\ last.op = "GenerateToken"
    /\ last.err = Nil
    /\ last.token = RandomString(2)
    /\ RandomString(2) \in DOMAIN store
    /\ returned = {RandomString(2)}
    /\ repeated = {}

\* a step of the access-token path
AccessStep ==
    last'.op \in {"GenerateAccessToken", "DecodeAccessToken"} /\ last' # last

\* C14: the access-token path is stateless. GenerateAccessToken and
\* DecodeAccessToken issue no store command and leave the store as it is, and
\* no step of the program (DestroyToken and the expiry of keys included)
\* changes what DecodeAccessToken answers for a token.
C14_AccessPathStateless ==
    [][/\ AccessStep => (store' = store /\ last'.cmds = <<>>)
       /\ \A token \in AccessPresented :
             /\ DecodeAccessToken(token).valid' = DecodeAccessToken(token).valid
             /\ DecodeAccessToken(token).err' = DecodeAccessToken(token).err]_vars

\* DecodeAccessToken accepted a token although the store lost its well-signed
\* key and holds no record of the token
C14_Witness ==
    /\ last.op = "DecodeAccessToken"
    /\ last.err = Nil
    /\ ~last.wasLive
    /\ JwtGood \notin DOMAIN store

\* C15: no retry inside the module. A GenerateToken call issues at most one
\* store command, a SET; a DecodeToken call exactly one, a GET of its key; a
\* DestroyToken call exactly one, a DEL of its key; whatever the store replied.
C15_OneStoreCommandPerCall ==
    /\ last.op = "GenerateToken" =>
          /\ Len(last.cmds) <= 1
          /\ \A i \in 1..Len(last.cmds) : last.cmds[i].cmd = "SET"
    /\ last.op = "DecodeToken" =>
          /\ Len(last.cmds) = 1
          /\ last.cmds[1].cmd = "GET"
          /\ last.cmds[1].key = last.token
    /\ last.op = "DestroyToken" =>
          /\ Len(last.cmds) = 1
          /\ last.cmds[1].cmd = "DEL"
          /\ last.cmds[1].key = last.token

\* a DEL that failed was not sent again
C15_Witness ==
    /\ last.op = "DestroyToken"
    /\ Len(last.cmds) = 1
    /\ last.cmds[1].reply \in StoreErrors
    /\ last.err # Nil

\* claims of any subject and type, for the statements about every input
AnyClaims == {NewTokenClaims(u, t) : u \in {"u1", "u2"}, t \in TokenType}

\* C16: GenerateToken does not check its tokenType argument. For every
\* tokenType (AccessToken and RefreshToken included), equal to the type in
\* the claims or not, the outcome and the record written are those of any
\* other tokenType: the record holds the claims as given. The type
\* DecodeToken matches is the one in the claims it parsed, never that argument.
C16_TokenTypeArgumentIgnored ==
    /\ last.op = "GenerateToken" =>
          \A t \in TokenType, c \in AnyClaims, e \in Exprs,
             b \in {NoBytes, RandomString(1)}, o \in Outcomes :
              GenerateToken(t, c, e, b, o) = GenerateToken(c.typ, c, e, b, o)
    /\ (last.op = "GenerateToken" /\ last.err = Nil
            /\ last.token \in DOMAIN store)
          => store[last.token].value = last.claims
    /\ (last.op = "DecodeToken" /\ last.err = Nil)
          => (last.claims.typ = last.token.typ /\ last.typ = last.token.typ)

\* GenerateToken was called with tokenType AccessToken and claims of type
\* VerifyEmail, and stored the claims
C16_Witness ==
    /\ last.op = "GenerateToken"
    /\ last.typ = AccessToken
    /\ last.claims.typ = VerifyEmail
    /\ last.err = Nil
    /\ last.token \in DOMAIN store
    /\ store[last.token].value.typ = VerifyEmail

\* a GenerateToken call that returned an error
GenerateErrStep ==
    last'.op = "GenerateToken" /\ last'.err # Nil /\ last' # last

\* C17 as stated: GenerateToken is all-or-nothing. A call that returns an
\* error returns the empty string and the store holds no new record: it is
\* as it was before the call.
C17_GenerateAllOrNothing ==
    [][GenerateErrStep =>
        /\ last'.token = EmptyString
        /\ store' = store]_vars

\* C17, amended: a GenerateToken call that returns an error hands out no
\* key: it returns the empty string, which decodes as valid for no type.
\* When the random source failed no store command was issued and the store
\* is as it was. When SET failed its error is the one returned, and the
\* store is as it was or holds, besides, the record of this call under the
\* string it drew, which is not the string returned.
C17_FailedGenerateHandsOutNoKey ==
    [][GenerateErrStep =>
        /\ last'.token = EmptyString
        /\ \A t \in TokenType : DecodeToken(EmptyString, t, Nil).err' # Nil
        /\ last'.err = ErrRand => (last'.cmds = <<>> /\ store' = store)
        /\ last'.cmds # <<>> =>
              /\ Len(last'.cmds) = 1
              /\ last'.cmds[1].cmd = "SET"
              /\ last'.err = last'.cmds[1].reply
              /\ last'.cmds[1].key # last'.token
              /\ \/ store' = store
                 \/ store' = StoreSet(store, last'.cmds[1].key,
                                      last'.claims, last'.expr)]_vars

\* SET was answered with a transport error under GenerateToken, no key was
\* returned, and the store holds the record all the same
C17_Witness ==
    /\ last.op = "GenerateToken"
    /\ last.err \in StoreErrors
    /\ last.token = EmptyString
    /\ last.cmds # <<>>
    /\ last.cmds[1].key \in DOMAIN store
    /\ store[last.cmds[1].key].value = last.claims

\* C18: DecodeToken is read-only. A DecodeToken call leaves the store (keys,
\* records and TTLs) as it is; and as long as its key has neither entered
\* nor left the store since, decoding the same key with the same type again
\* returns what the last call returned.
C18_DecodeReadOnly ==
    /\ [][(last'.op = "DecodeToken" /\ last' # last) => store' = store]_vars
    /\ []((last.op = "DecodeToken" /\ Replied
              /\ last.wasLive = (last.token \in DOMAIN store))
            => /\ DecodeToken(last.token, last.typ, Nil).err = last.err
               /\ DecodeToken(last.token, last.typ, Nil).claims = last.claims)

\* a token was decoded successfully and is still in the store with its TTL
C18_Witness ==
    /\ last.op = "DecodeToken"
    /\ last.token = JwtGood
    /\ last.err = Nil
    /\ JwtGood \in DOMAIN store
    /\ store[JwtGood].ttl = 1

\* what DecodeToken returns for a key and a type when the store replies
Answer(k, t) ==
    LET res == DecodeToken(k, t, Nil) IN <<res.claims, res.err>>

\* C19: DestroyToken(k) affects only k. Every other key is in the store
\* after the call iff it was before, with the same record and remaining TTL,
\* and DecodeToken of it returns what it returned before.
C19_DestroyTouchesOnlyItsKey ==
    [][DestroyStep =>
        \A k \in Tokens \ {last'.token} :
            /\ (k \in DOMAIN store') = (k \in DOMAIN store)
            /\ k \in DOMAIN store => store'[k] = store[k]
            /\ \A t \in TokenType : Answer(k, t)' = Answer(k, t)]_vars

\* an issued key was destroyed while the well-signed key stays with its
\* running TTL
C19_Witness ==
    /\ last.op = "DestroyToken"
    /\ last.token = RandomString(1)
    /\ last.wasLive
    /\ last.err = Nil
    /\ RandomString(1) \notin DOMAIN store
    /\ JwtGood \in DOMAIN store
    /\ store[JwtGood].ttl = 1
    /\ Answer(JwtGood, VerifyEmail) = <<TokenClaims("u1", VerifyEmail), Nil>>

TypeOK ==
    /\ DOMAIN store \subseteq Tokens
    /\ nextRand \in 0..MaxRand
    /\ destroyed \subseteq Tokens
    /\ last.op \in {"none", "GenerateToken", "DecodeToken", "DestroyToken",
                   "GenerateAccessToken", "DecodeAccessToken"}
====
